---- MODULE Spec2Model ----
(***************************************************************************)
(* calendar-monitor: the ICS aggregation service (src/src/calendar.rs),    *)
(* the meeting status logic (src/src/meeting.rs) and the two transport     *)
(* handlers that build a MeetingUpdate (src/src/main.rs).                  *)
(*                                                                         *)
(* Time is an integer number of clock units.  DayLen units make one UTC    *)
(* calendar day, so date_naive(t) is t \div DayLen.  SystemTime::now() and *)
(* Utc::now() both read the variable clock.                                *)
(***************************************************************************)
EXTENDS Integers, Sequences, FiniteSets, TLC

\* ------------------------------------------------------------------ bounds
MaxClock     == 2   \* the clock runs over 0..MaxClock
DayLen       == 2   \* clock units per calendar day
MaxTTL       == 2   \* cache_duration_secs is drawn from 0..MaxTTL
NumSources   == 2   \* at most this many configured ICS locators
MaxFeedLen   == 1   \* events per fetched ICS document
MaxGoogleLen == 1   \* events per Google Calendar answer
EventDur     == 1   \* how long an event of a feed or of Google lasts
NumCallers   == 2   \* tasks that share one CalendarService
MaxRefreshes == 3   \* refreshes one shared CalendarService starts

\* ------------------------------------------------------------ basic values
None == [some |-> FALSE]             \* Option::None
Some(v) == [some |-> TRUE, val |-> v] \* Option::Some(v)
Ok(v) == [ok |-> TRUE, val |-> v]    \* Result::Ok(v)
Err == [ok |-> FALSE]                \* Result::Err(_)

Times == 0..(MaxClock + EventDur)

\* Titles are sequences of characters.
RegularTitle == <<"S">>
GoogleTitle  == <<"G">>
BlockTitle   == <<"[", "F", "]">>
FeedTitles   == {RegularTitle, BlockTitle}
GoogleTitles == {GoogleTitle, BlockTitle}

\* ------------------------------------------------------------- meeting.rs
Meeting_new(title, start_time, end_time) ==
    [title |-> title, start_time |-> start_time, end_time |-> end_time,
     description |-> None, location |-> None, attendees |-> <<>>,
     response_status |-> None]

\* status() with the end of the meeting left out of InProgress.
status_exclusive_end(m, now) ==
    IF now < m.start_time THEN "Upcoming"
    ELSE IF now >= m.start_time /\ now < m.end_time THEN "InProgress"
    ELSE "Ended"

\* Meeting::status, with the value Utc::now() returned as the parameter now.
status(m, now) ==
    IF now < m.start_time THEN "Upcoming"
    ELSE IF now >= m.start_time /\ now <= m.end_time THEN "InProgress"
    ELSE "Ended"

is_active(m, now)   == status(m, now) = "InProgress"
is_upcoming(m, now) == status(m, now) = "Upcoming"
has_ended(m, now)   == status(m, now) = "Ended"

time_until_end(m, now) == m.end_time - now

is_time_block(m) ==
    /\ Len(m.title) > 0
    /\ m.title[1] = "["
    /\ m.title[Len(m.title)] = "]"

\* ------------------------------------------------------ iterator helpers
\* Iterator::next on what a filter left: the first element, if any.
first(s) == IF s = <<>> THEN None ELSE Some(s[1])

\* .iter().find(|m| m.is_active()), the scan made at the instant now.
find_active(s, now) == first(SelectSeq(s, LAMBDA m : is_active(m, now)))

\* .iter().find(|m| m.is_upcoming()), the scan made at the instant now.
find_upcoming(s, now) == first(SelectSeq(s, LAMBDA m : is_upcoming(m, now)))

\* Vec::sort_by(|a, b| a.start_time.cmp(&b.start_time)): a stable sort.
RECURSIVE sort_by_start_time(_)
sort_by_start_time(s) ==
    IF Len(s) <= 1 THEN s
    ELSE LET front == sort_by_start_time(SubSeq(s, 1, Len(s) - 1))
             x     == s[Len(s)]
             keep  == {i \in 1..Len(front) : front[i].start_time <= x.start_time}
             k     == Cardinality(keep)
         IN SubSeq(front, 1, k) \o <<x>> \o SubSeq(front, k + 1, Len(front))

date_naive(t) == t \div DayLen

\* ------------------------------------------------------------ calendar.rs
\* The offset chrono::Duration::hours(3) that parse_ical_datetime takes off
\* a floating local time, in clock units.
IstanbulOffset == 3

\* The value of a DTSTART or DTEND property, by the textual form it has:
\*   "utc"   YYYYMMDDTHHMMSSZ: the date digits, the time digits and a 'Z'
\*   "local" YYYYMMDDTHHMMSS: the date digits and the time digits
\*   "date"  YYYYMMDD: the date digits
\*   "badZ"  a text that ends in 'Z' and has not the digits of the UTC form
\*   "other" a text in none of these forms
\* date is the day the date digits name, tod the time of day the time digits
\* name; time digits with tod outside 0..DayLen-1 name no time of day (such
\* as hour 25).
DtUtcAt(d, tod)   == [form |-> "utc", date |-> d, tod |-> tod]
DtLocalAt(d, tod) == [form |-> "local", date |-> d, tod |-> tod]
DtUtc(t)   == DtUtcAt(t \div DayLen, t % DayLen)
DtLocal(t) == DtLocalAt(t \div DayLen, t % DayLen)
DtDate(d)  == [form |-> "date", date |-> d]
DtBadZ     == [form |-> "badZ"]
DtOther    == [form |-> "other"]

\* NaiveDateTime::parse_from_str: the time digits must name a time of day.
naive_datetime(dt_str) ==
    IF dt_str.tod >= 0 /\ dt_str.tod < DayLen
    THEN Ok(dt_str.date * DayLen + dt_str.tod)
    ELSE Err

\* CalendarService::parse_ical_datetime -> Result<Option<DateTime<Utc>>>.
\* The ends_with('Z') branch raises the parse error with `?`; every other
\* unparseable text gives Ok(None).
parse_ical_datetime(dt_str) ==
    IF dt_str.form \in {"utc", "badZ"}
    THEN IF dt_str.form = "utc" /\ naive_datetime(dt_str).ok
         THEN Ok(Some(naive_datetime(dt_str).val))
         ELSE Err
    ELSE IF dt_str.form = "local" /\ naive_datetime(dt_str).ok
    THEN Ok(Some(naive_datetime(dt_str).val - IstanbulOffset))
    ELSE IF dt_str.form = "date" THEN Ok(Some(dt_str.date * DayLen))
    ELSE Ok(None)

UntitledEvent == <<"U", "n", "t", "i", "t", "l", "e", "d">>

\* chrono's Weekday, by the codes should_occur_on_day gives them; day 0 of
\* the clock is a Monday.
Weekdays == <<"MO", "TU", "WE", "TH", "FR", "SA", "SU">>
weekday(date) == Weekdays[(date % Len(Weekdays)) + 1]

\* An RRULE value is the sequence of its NAME=value parts, as the ';' split
\* them.  The value of BYDAY is a sequence of weekday codes; the value of
\* UNTIL has eight leading date digits naming a day, or has not.
RulePart(name, value) == [name |-> name, value |-> value]
UntilDigits(d) == [digits |-> TRUE, date |-> d]
UntilOther     == [digits |-> FALSE]

\* rrule.contains("NAME=value")
rrule_contains(rrule, name, value) ==
    \E k \in 1..Len(rrule) : rrule[k].name = name /\ rrule[k].value = value

\* rrule.find("NAME="), and the text from there up to the next ';'.
rrule_find(rrule, name) ==
    first(SelectSeq(rrule, LAMBDA part : part.name = name))

\* CalendarService::parse_rrule_until
parse_rrule_until(rrule) ==
    LET until_str == rrule_find(rrule, "UNTIL")
    IN IF until_str.some /\ until_str.val.value.digits
       THEN Some(until_str.val.value.date)
       ELSE None

\* should_occur_on_day with a rule without BYDAY matching every day.
should_occur_on_day_always(rrule, date, original_weekday) ==
    LET byday_pattern == rrule_find(rrule, "BYDAY")
    IN IF byday_pattern.some
       THEN \E k \in 1..Len(byday_pattern.val.value) :
               byday_pattern.val.value[k] = weekday(date)
       ELSE TRUE

\* CalendarService::should_occur_on_day
should_occur_on_day(rrule, date, original_weekday) ==
    LET byday_pattern == rrule_find(rrule, "BYDAY")
    IN IF byday_pattern.some
       THEN \E k \in 1..Len(byday_pattern.val.value) :
               byday_pattern.val.value[k] = weekday(date)
       ELSE weekday(date) = original_weekday

\* CalendarService::adjust_time_to_date: the time of day of original_time on
\* the day target_date.
adjust_time_to_date(original_time, target_date) ==
    target_date * DayLen + (original_time % DayLen)

\* The block of expand_recurring_event that makes the occurrence of one day.
occurrence_on(title, start, end, description, location, day) ==
    LET day_start == adjust_time_to_date(start, day)
        day_end   == adjust_time_to_date(end, day)
        original_crosses_midnight == date_naive(start) # date_naive(end)
    IN [Meeting_new(title, day_start,
                    IF original_crosses_midnight THEN day_end + DayLen ELSE day_end)
          EXCEPT !.description = description, !.location = location]

\* expand_recurring_event without the UNTIL check.
expand_recurring_event_no_until(title, start, end, rrule, description, location, now) ==
    LET today    == date_naive(now)
        tomorrow == today + 1
        original_weekday == weekday(date_naive(start))
        on(day) == IF should_occur_on_day(rrule, day, original_weekday)
                   THEN <<occurrence_on(title, start, end, description, location, day)>>
                   ELSE <<>>
    IN IF ~rrule_contains(rrule, "FREQ", "WEEKLY") THEN Ok(<<>>)
       ELSE Ok(on(today) \o on(tomorrow))

\* expand_recurring_event with every frequency expanded as a weekly one.
expand_recurring_event_any_freq(title, start, end, rrule, description, location, now) ==
    LET today    == date_naive(now)
        tomorrow == today + 1
        until_date == parse_rrule_until(rrule)
        original_weekday == weekday(date_naive(start))
        on(day) == IF should_occur_on_day(rrule, day, original_weekday)
                   THEN <<occurrence_on(title, start, end, description, location, day)>>
                   ELSE <<>>
    IN IF until_date.some /\ (today > until_date.val \/ tomorrow > until_date.val)
       THEN Ok(<<>>)
       ELSE Ok(on(today) \o on(tomorrow))

\* CalendarService::expand_recurring_event; now is the Utc::now() it reads.
expand_recurring_event(title, start, end, rrule, description, location, now) ==
    LET today    == date_naive(now)
        tomorrow == today + 1
        until_date == parse_rrule_until(rrule)
        original_weekday == weekday(date_naive(start))
        on(day) == IF should_occur_on_day(rrule, day, original_weekday)
                   THEN <<occurrence_on(title, start, end, description, location, day)>>
                   ELSE <<>>
    IN IF ~rrule_contains(rrule, "FREQ", "WEEKLY") THEN Ok(<<>>)
       ELSE IF until_date.some /\ (today > until_date.val \/ tomorrow > until_date.val)
       THEN Ok(<<>>)
       ELSE Ok(on(today) \o on(tomorrow))

\* CalendarService::convert_ical_event_to_meeting: an IcalEvent is the record
\* of its SUMMARY, DTSTART, DTEND, RRULE, DESCRIPTION and LOCATION values,
\* None for a property that is absent.  Every other property of the event,
\* ATTENDEE with its PARTSTAT among them, falls in the `_ => {}` arm of the
\* match and is not read.  now is the Utc::now() that the expansion of a
\* recurring event reads.
convert_ical_event_to_meeting(event, now) ==
    LET title == IF event.summary.some THEN event.summary.val ELSE UntitledEvent
        start_time == IF event.dtstart.some
                      THEN parse_ical_datetime(event.dtstart.val) ELSE Ok(None)
        end_time   == IF event.dtend.some
                      THEN parse_ical_datetime(event.dtend.val) ELSE Ok(None)
    IN IF ~start_time.ok \/ ~end_time.ok THEN Err
       ELSE IF start_time.val.some /\ end_time.val.some
       THEN IF event.rrule.some
            THEN expand_recurring_event(title, start_time.val.val, end_time.val.val,
                                        event.rrule.val, event.description,
                                        event.location, now)
            ELSE Ok(<<[Meeting_new(title, start_time.val.val, end_time.val.val)
                         EXCEPT !.description = event.description,
                                !.location = event.location]>>)
       ELSE Ok(<<>>)

RECURSIVE Flatten(_)
Flatten(ss) == IF ss = <<>> THEN <<>> ELSE Head(ss) \o Flatten(Tail(ss))

\* parse_ics_file_extended keeping the meetings of every date.
parse_ics_file_extended_unfiltered(fetched, now) ==
    IF fetched.status # "ok" THEN Err
    ELSE LET conv == [i \in 1..Len(fetched.events) |->
                         convert_ical_event_to_meeting(fetched.events[i], now)]
         IN IF \E i \in 1..Len(conv) : ~conv[i].ok THEN Err
            ELSE Ok(sort_by_start_time(
                      Flatten([i \in 1..Len(conv) |-> conv[i].val])))

\* CalendarService::parse_ics_file_extended.  fetched is what reading the
\* locator gave: a failure, or the events of the document.  now is Utc::now()
\* at the time of the parse.
parse_ics_file_extended(fetched, now) ==
    IF fetched.status # "ok" THEN Err
    ELSE LET today    == date_naive(now)
             tomorrow == today + 1
             conv == [i \in 1..Len(fetched.events) |->
                         convert_ical_event_to_meeting(fetched.events[i], now)]
             wanted(m) == date_naive(m.start_time) = today
                          \/ date_naive(m.start_time) = tomorrow
         IN IF \E i \in 1..Len(conv) : ~conv[i].ok THEN Err
            ELSE Ok(sort_by_start_time(
                      SelectSeq(Flatten([i \in 1..Len(conv) |-> conv[i].val]),
                             wanted)))

\* The loop with a failed source throwing away what was collected so far.
extend_all_meetings_reset(all_meetings, parsed) ==
    IF parsed.ok THEN all_meetings \o parsed.val ELSE <<>>

\* The match in the loop of parse_multiple_ics_files_extended: a source that
\* parsed extends all_meetings, a source that failed is logged and skipped.
extend_all_meetings(all_meetings, parsed) ==
    IF parsed.ok THEN all_meetings \o parsed.val ELSE all_meetings

\* The titles of the meetings of get_mock_meetings.
DailyStandup  ==
    <<"D", "a", "i", "l", "y", " ", "S", "t", "a", "n", "d", "u", "p">>
ProjectReview ==
    <<"P", "r", "o", "j", "e", "c", "t", " ", "R", "e", "v", "i", "e", "w">>
ClientCall    ==
    <<"C", "l", "i", "e", "n", "t", " ", "C", "a", "l", "l">>

\* get_mock_meetings with a Daily Standup that has not started yet.
get_mock_meetings_not_started(now) ==
    Ok(sort_by_start_time(
        <<[Meeting_new(DailyStandup, now + 5, now + 25)
             EXCEPT !.description = Some("Daily team sync meeting"),
                    !.location = Some("Conference Room A")],
          [Meeting_new(ProjectReview, now + 30, now + 90)
             EXCEPT !.description = Some("Quarterly project review with stakeholders"),
                    !.location = Some("Main Conference Room")],
          [Meeting_new(ClientCall, now + 3 * 60, now + 4 * 60)
             EXCEPT !.description = Some("Weekly check-in with client"),
                    !.location = Some("Zoom")]>>))

\* CalendarService::get_mock_meetings.  now is its Utc::now(); the instants
\* of this path are minutes.
get_mock_meetings(now) ==
    Ok(sort_by_start_time(
        <<[Meeting_new(DailyStandup, now - 5, now + 25)
             EXCEPT !.description = Some("Daily team sync meeting"),
                    !.location = Some("Conference Room A")],
          [Meeting_new(ProjectReview, now + 30, now + 90)
             EXCEPT !.description = Some("Quarterly project review with stakeholders"),
                    !.location = Some("Main Conference Room")],
          [Meeting_new(ClientCall, now + 3 * 60, now + 4 * 60)
             EXCEPT !.description = Some("Weekly check-in with client"),
                    !.location = Some("Zoom")]>>))

\* The tail without the sort.
finish_parse_multiple_unsorted(all_meetings) == Ok(all_meetings)

\* The tail with an empty result reported as an error.
finish_parse_multiple_strict(all_meetings) ==
    IF all_meetings = <<>> THEN Err ELSE Ok(sort_by_start_time(all_meetings))

\* The tail of parse_multiple_ics_files_extended, after the loop: sort by
\* start time and return Ok.
finish_parse_multiple(all_meetings) == Ok(sort_by_start_time(all_meetings))

\* Vec::remove(i) with the index counted from 0.
remove(v, i) == SubSeq(v, 1, i) \o SubSeq(v, i + 2, Len(v))

\* The inner while of the duplicate removal in parse_multiple_ics_files, from
\* the position j on (i and j count from 0).  It ends by the break after
\* remove(i) or when j reaches the end; what it gives is the list and j as
\* they are then.
RECURSIVE dedup_inner(_, _, _)
dedup_inner(v, i, j) ==
    IF j >= Len(v) THEN [all_meetings |-> v, j |-> j]
    ELSE IF v[i + 1].title = v[j + 1].title
            /\ v[i + 1].start_time = v[j + 1].start_time
    THEN IF v[i + 1].end_time < v[j + 1].end_time
         THEN [all_meetings |-> remove(v, i), j |-> j]
         ELSE dedup_inner(remove(v, j), i, j)
    ELSE dedup_inner(v, i, j + 1)

\* The outer while: i moves on only if j stands at or past the end of the
\* list once the inner while is over.
RECURSIVE dedup_outer(_, _)
dedup_outer(v, i) ==
    IF i >= Len(v) THEN v
    ELSE LET r == dedup_inner(v, i, i + 1)
         IN dedup_outer(r.all_meetings,
                        IF r.j >= Len(r.all_meetings) THEN i + 1 ELSE i)

\* The deduplication pass of parse_multiple_ics_files: sort by start time,
\* then the removal loop.
dedup(all_meetings) == dedup_outer(sort_by_start_time(all_meetings), 0)

\* The cache check with the comparison turned around.
cache_valid_inverted(last_fetch, now, ttl) ==
    IF last_fetch.some
    THEN IF now >= last_fetch.val THEN now - last_fetch.val > ttl ELSE FALSE
    ELSE FALSE

\* The cache check with an age equal to the TTL still counted as fresh.
cache_valid_inclusive(last_fetch, now, ttl) ==
    IF last_fetch.some
    THEN IF now >= last_fetch.val THEN now - last_fetch.val <= ttl ELSE FALSE
    ELSE FALSE

\* The cache check of get_meetings_for_today_and_tomorrow:
\* now.duration_since(last_time).map(|d| d.as_secs() < ttl).unwrap_or(false)
cache_valid(last_fetch, now, ttl) ==
    IF last_fetch.some
    THEN IF now >= last_fetch.val THEN now - last_fetch.val < ttl ELSE FALSE
    ELSE FALSE

\* get_current_and_next_meetings without the time-block filter.
current_and_next_unfiltered(meetings, now) ==
    [current |-> find_active(meetings, now),
     next    |-> find_upcoming(meetings, now)]

\* The body of get_current_and_next_meetings after the list is there.
current_and_next(meetings, now) ==
    LET regular_meetings == SelectSeq(meetings, LAMBDA m : ~is_time_block(m))
    IN [current |-> find_active(regular_meetings, now),
        next    |-> find_upcoming(regular_meetings, now)]

\* get_active_time_blocks with every time block, in progress or not.
active_time_blocks_all(meetings, now) ==
    SelectSeq(meetings, LAMBDA m : is_time_block(m))

\* The body of get_active_time_blocks after the list is there.
active_time_blocks(meetings, now) ==
    SelectSeq(meetings, LAMBDA m : is_time_block(m) /\ is_active(m, now))

\* ---------------------------------------------------------------- main.rs
\* The merge with the Google event also taken on equal start times.
merge_slot_on_ties(local, google) ==
    IF google.some /\ (~local.some \/ google.val.start_time <= local.val.start_time)
    THEN google ELSE local

\* One slot of the merge in handle_socket and get_meetings.
merge_slot(local, google) ==
    IF google.some /\ (~local.some \/ google.val.start_time < local.val.start_time)
    THEN google ELSE local

MeetingUpdate(current, next, countdown, blocks) ==
    [current_meeting |-> current, next_meeting |-> next,
     countdown_seconds |-> countdown, active_time_blocks |-> blocks]

\* The match (meetings_result, time_blocks_result) of both handlers when both
\* are Ok.
merged_update(local, blocks, google_meetings, now) ==
    LET google_current == find_active(google_meetings, now)
        google_next    == find_upcoming(google_meetings, now)
        current == IF google_meetings # <<>>
                   THEN merge_slot(local.current, google_current)
                   ELSE local.current
        next    == IF google_meetings # <<>>
                   THEN merge_slot(local.next, google_next)
                   ELSE local.next
        countdown == IF current.some THEN Some(time_until_end(current.val, now)) ELSE None
    IN MeetingUpdate(current, next, countdown, blocks)

\* What the handler hands to the transport: handle_socket sends nothing when a
\* query failed, get_meetings answers the empty update.
handler_output(h, meetings_result, time_blocks_result, google_meetings, now) ==
    IF meetings_result.ok /\ time_blocks_result.ok
    THEN Some(merged_update(meetings_result.val, time_blocks_result.val,
                            google_meetings, now))
    ELSE IF h = "http" THEN Some(MeetingUpdate(None, None, None, <<>>))
    ELSE None

\* ------------------------------------------------------------ input sets
SeqsUpTo(S, n) == UNION {[1..k -> S] : k \in 0..n}

EventStarts == 0..MaxClock

\* The (start, end) pairs of the events the sources and Google can report.
EventSpans ==
    {<<s, s + EventDur>> : s \in EventStarts}

FeedEvents ==
    {[summary |-> Some(t), dtstart |-> Some(DtUtc(se[1])),
      dtend |-> Some(DtUtc(se[2])),
      rrule |-> None, description |-> None, location |-> None] :
        t \in FeedTitles, se \in EventSpans}
    \cup {[summary |-> Some(RegularTitle), dtstart |-> Some(DtUtc(0)),
           dtend |-> None, rrule |-> None, description |-> None, location |-> None],
          [summary |-> Some(RegularTitle), dtstart |-> Some(DtBadZ),
           dtend |-> Some(DtUtc(0)), rrule |-> None, description |-> None, location |-> None]}

\* A locator is a local path or an http(s) URL; the odd ones are paths.
Locator(i) == [id |-> i, url |-> (i % 2 = 0)]

\* What reading a locator can give (the branches of parse_ics_file_extended
\* before the parser runs).
FetchOutcomes(loc) ==
    (IF loc.url
     THEN {[status |-> "network_error"], [status |-> "http_status"]}
     ELSE {[status |-> "not_found"], [status |-> "read_error"]})
    \cup {[status |-> "ok", events |-> ev] : ev \in SeqsUpTo(FeedEvents, MaxFeedLen)}

\* What the Google Calendar collaborator can hand over: a list of meetings,
\* empty when it is not configured, not authenticated, or its fetch failed.
GoogleMeetings ==
    {Meeting_new(t, se[1], se[2]) : t \in GoogleTitles, se \in EventSpans}
GoogleAnswers == SeqsUpTo(GoogleMeetings, MaxGoogleLen)

\* ------------------------------------------------------------------ state
VARIABLES
    clock,                \* the wall clock: SystemTime::now() and Utc::now()
    ics_file_paths,       \* CalendarService.ics_file_paths
    cache_duration_secs,  \* CalendarService.cache_duration_secs
    cached_meetings,      \* CalendarService.cached_meetings
    last_fetch_time,      \* CalendarService.last_fetch_time
    handler,              \* the handler that owns the service
    pc,                   \* where the handler stands
    query,                \* the CalendarService query in progress
    now,                  \* get_meetings_for_today_and_tomorrow: let now
    idx,                  \* parse_multiple_ics_files_extended: loop position
    all_meetings,         \* parse_multiple_ics_files_extended: all_meetings
    source_results,       \* what parse_ics_file_extended gave, source by source
    ret,                  \* what get_meetings_for_today_and_tomorrow returned
    meetings_result,      \* handler: let meetings_result
    time_blocks_result,   \* handler: let time_blocks_result
    google_meetings,      \* handler: let google_meetings
    update,               \* the MeetingUpdate handed to the transport
    arg,                  \* the input of a function evaluated on its own
    res,                  \* and its result
    callers,              \* the tasks that call one shared CalendarService
    writers               \* which refresh wrote cached_meetings, last_fetch_time

\* A task that is not inside get_meetings_for_today_and_tomorrow.  Besides
\* the locals of the call (now, fresh_meetings, the value returned) a caller
\* carries the number of the refresh it runs, and for a call served from the
\* cache the refreshes whose last_fetch_time and cached_meetings it read.
IdleCaller ==
    [pc |-> "idle", now |-> 0, fresh_meetings |-> <<>>, ret |-> None,
     refresh |-> 0, stamp_by |-> 0, list_by |-> 0]

\* The refresh, by its number in the order of the starts, that wrote each
\* of the two fields of the cache last (0: not written), and the number of
\* refreshes started so far.
NoWriters == [cached_by |-> 0, fetched_by |-> 0, started |-> 0]

vars == <<clock, ics_file_paths, cache_duration_secs, cached_meetings,
          last_fetch_time, handler, pc, query, now, idx, all_meetings,
          source_results, ret, meetings_result, time_blocks_result,
          google_meetings, update, arg, res, callers, writers>>

fixed   == <<ics_file_paths, cache_duration_secs, arg, res, callers, writers>>
cache   == <<cached_meetings, last_fetch_time>>
refresh == <<now, idx, all_meetings, source_results>>
locals  == <<meetings_result, time_blocks_result, google_meetings, update>>

NoLocals ==
    /\ ret' = None
    /\ meetings_result' = None
    /\ time_blocks_result' = None
    /\ google_meetings' = <<>>
    /\ update' = None

\* The state before any handler runs, for a configuration of n locators and
\* a cache TTL of ttl.  The configuration is fixed from here on: every handler
\* builds its CalendarService from it with new_from_config.
Configured(n, ttl) ==
    /\ clock = 0
    /\ ics_file_paths = [i \in 1..n |-> Locator(i)]
    /\ cache_duration_secs = ttl
    /\ cached_meetings = None
    /\ last_fetch_time = None
    /\ handler = "none"
    /\ pc = "idle"
    /\ query = "none"
    /\ now = 0
    /\ idx = 0
    /\ all_meetings = <<>>
    /\ source_results = <<>>
    /\ ret = None
    /\ meetings_result = None
    /\ time_blocks_result = None
    /\ google_meetings = <<>>
    /\ update = None
    /\ callers = [c \in 1..NumCallers |-> IdleCaller]
    /\ writers = NoWriters

Init ==
    /\ \E n \in 1..NumSources : \E ttl \in 0..MaxTTL : Configured(n, ttl)
    /\ arg = None
    /\ res = None

\* Time passes.  (pc = "sent" is the instant at which the update leaves the
\* handler; the handler leaves it before the clock moves on.)
ClockTick ==
    /\ clock < MaxClock
    /\ pc # "sent"
    /\ clock' = clock + 1
    /\ UNCHANGED <<fixed, cache, handler, pc, query, refresh, ret, locals>>

\* handle_socket up to its loop: a websocket connection gets a CalendarService
\* of its own (CalendarService::new_from_config), with an empty cache.
HandleSocket ==
    /\ pc = "idle"
    /\ handler' = "socket"
    /\ cached_meetings' = None
    /\ last_fetch_time' = None
    /\ NoLocals
    /\ UNCHANGED <<clock, fixed, pc, query, refresh>>

\* handle_socket: interval.tick() fires and the loop body starts with
\* get_current_and_next_meetings.
Tick ==
    /\ pc = "idle"
    /\ handler = "socket"
    /\ pc' = "call"
    /\ query' = "current_and_next"
    /\ NoLocals
    /\ UNCHANGED <<clock, fixed, cache, handler, refresh>>

\* get_meetings: a GET /api/meetings builds a CalendarService of its own and
\* starts with get_current_and_next_meetings.
GetMeetings ==
    /\ pc = "idle"
    /\ handler' = "http"
    /\ cached_meetings' = None
    /\ last_fetch_time' = None
    /\ pc' = "call"
    /\ query' = "current_and_next"
    /\ NoLocals
    /\ UNCHANGED <<clock, fixed, refresh>>

\* CheckCache with a stored empty list taken for no list at all.
CheckCache_refetch_empty ==
    /\ pc = "call"
    /\ ics_file_paths # <<>>
    /\ now' = clock
    /\ IF cache_valid(last_fetch_time, clock, cache_duration_secs)
          /\ cached_meetings.some
          /\ cached_meetings.val # <<>>
       THEN /\ ret' = Ok(cached_meetings.val)
            /\ pc' = "ret"
            /\ UNCHANGED <<idx, all_meetings>>
       ELSE /\ ret' = None
            /\ pc' = "fetch"
            /\ idx' = 1
            /\ all_meetings' = <<>>
    /\ UNCHANGED <<clock, fixed, cache, handler, query, source_results, locals>>

\* get_meetings_for_today_and_tomorrow from its entry to the return of the
\* cached list or to the start of the refresh.
CheckCache ==
    /\ pc = "call"
    /\ ics_file_paths # <<>>
    /\ now' = clock
    /\ IF cache_valid(last_fetch_time, clock, cache_duration_secs)
          /\ cached_meetings.some
       THEN /\ ret' = Ok(cached_meetings.val)
            /\ pc' = "ret"
            /\ UNCHANGED <<idx, all_meetings>>
       ELSE /\ ret' = None
            /\ pc' = "fetch"
            /\ idx' = 1
            /\ all_meetings' = <<>>
    /\ UNCHANGED <<clock, fixed, cache, handler, query, source_results, locals>>

\* One turn of the loop of parse_multiple_ics_files_extended; after the last
\* source, the sort, the return to get_meetings_for_today_and_tomorrow, the
\* update of the cache and the return of the fresh list.
FetchSource ==
    /\ pc = "fetch"
    /\ \E fetched \in FetchOutcomes(ics_file_paths[idx]) :
         LET parsed == parse_ics_file_extended(fetched, clock)
             acc    == extend_all_meetings(all_meetings, parsed)
             fresh_meetings == finish_parse_multiple(acc)
         IN /\ source_results' = Append(source_results, parsed)
            /\ IF idx < Len(ics_file_paths)
               THEN /\ all_meetings' = acc
                    /\ idx' = idx + 1
                    /\ UNCHANGED <<cache, pc, ret>>
               ELSE /\ all_meetings' = <<>>
                    /\ idx' = 0
                    /\ pc' = "ret"
                    /\ IF fresh_meetings.ok
                       THEN /\ cached_meetings' = Some(fresh_meetings.val)
                            /\ last_fetch_time' = Some(now)
                            /\ ret' = Ok(fresh_meetings.val)
                       ELSE /\ ret' = Err
                            /\ UNCHANGED cache
    /\ UNCHANGED <<clock, fixed, handler, query, now, locals>>

\* get_current_and_next_meetings after the await: `?` on the list, the filter
\* and the two finds; then the handler goes on to get_active_time_blocks.
CurrentAndNextReturn ==
    /\ pc = "ret"
    /\ query = "current_and_next"
    /\ meetings_result' = IF ret.ok THEN Ok(current_and_next(ret.val, clock)) ELSE Err
    /\ query' = "time_blocks"
    /\ pc' = "call"
    /\ ret' = None
    /\ source_results' = <<>>
    /\ UNCHANGED <<clock, fixed, cache, handler, now, idx, all_meetings,
                   time_blocks_result, google_meetings, update>>

\* get_active_time_blocks after the await; then the handler goes on to the
\* Google Calendar fetch.
ActiveTimeBlocksReturn ==
    /\ pc = "ret"
    /\ query = "time_blocks"
    /\ time_blocks_result' = IF ret.ok THEN Ok(active_time_blocks(ret.val, clock)) ELSE Err
    /\ query' = "none"
    /\ pc' = "merge"
    /\ ret' = None
    /\ source_results' = <<>>
    /\ UNCHANGED <<clock, fixed, cache, handler, now, idx, all_meetings,
                   meetings_result, google_meetings, update>>

\* The rest of the handler: the Google Calendar events arrive, the merge, the
\* MeetingUpdate.  handle_socket sends it and loops; get_meetings answers
\* with it and drops its service.
MergeAndSend ==
    /\ pc = "merge"
    /\ \E g \in GoogleAnswers :
         /\ google_meetings' = g
         /\ update' = handler_output(handler, meetings_result,
                                     time_blocks_result, g, clock)
    /\ pc' = "sent"
    /\ UNCHANGED <<clock, fixed, cache, handler, query, refresh, ret,
                   meetings_result, time_blocks_result>>

\* The handler is through with the update: handle_socket is back at
\* interval.tick(), get_meetings has returned; the locals are gone.
Done ==
    /\ pc = "sent"
    /\ pc' = "idle"
    /\ NoLocals
    /\ UNCHANGED <<clock, fixed, cache, handler, query, refresh>>

Next ==
    \/ ClockTick
    \/ HandleSocket
    \/ Tick
    \/ GetMeetings
    \/ CheckCache
    \/ FetchSource
    \/ CurrentAndNextReturn
    \/ ActiveTimeBlocksReturn
    \/ MergeAndSend
    \/ Done

Spec == Init /\ [][Next]_vars

\* --------------------------------------------- Meeting::status on its own
MaxStatusTime == 3
StatusTimes == 0..MaxStatusTime

InitStatus ==
    /\ Configured(1, 0)
    /\ arg \in {Some([m |-> Meeting_new(RegularTitle, s, e), now |-> t]) :
                   s \in StatusTimes, e \in StatusTimes, t \in StatusTimes}
    /\ res = None

\* status(), is_active(), is_upcoming() and has_ended() of one meeting, all at
\* the instant arg.val.now.
EvalStatus ==
    /\ arg.some
    /\ res = None
    /\ res' = Some([status      |-> status(arg.val.m, arg.val.now),
                    is_active   |-> is_active(arg.val.m, arg.val.now),
                    is_upcoming |-> is_upcoming(arg.val.m, arg.val.now),
                    has_ended   |-> has_ended(arg.val.m, arg.val.now)])
    /\ UNCHANGED <<clock, ics_file_paths, cache_duration_secs, arg, callers, writers, cache,
                   handler, pc, query, refresh, ret, locals>>

NextStatus == EvalStatus

SpecStatus == InitStatus /\ [][NextStatus]_vars

\* ------------------------------------------- parse_ical_datetime on its own
MaxParseDate == 7
ParseDates == 0..MaxParseDate

\* The texts handed to parse_ical_datetime: both date-time forms with every
\* time of day and with time digits that name none, the date-only form, and
\* the two kinds of text outside the forms.
DatetimeTexts ==
    {DtUtcAt(d, tod) : d \in ParseDates, tod \in 0..DayLen}
    \cup {DtLocalAt(d, tod) : d \in ParseDates, tod \in 0..DayLen}
    \cup {DtDate(d) : d \in ParseDates}
    \cup {DtBadZ, DtOther}

InitParse ==
    /\ Configured(1, 0)
    /\ arg \in {Some([dt_str |-> x]) : x \in DatetimeTexts}
    /\ res = None

EvalParse ==
    /\ arg.some
    /\ res = None
    /\ res' = Some(parse_ical_datetime(arg.val.dt_str))
    /\ UNCHANGED <<clock, ics_file_paths, cache_duration_secs, arg, callers, writers, cache,
                   handler, pc, query, refresh, ret, locals>>

NextParse == EvalParse

SpecParse == InitParse /\ [][NextParse]_vars

\* ---------------------------------------- parse_ics_file_extended on its own
MaxDocLen == 2

\* The events of a document: regular events of day 0, 1 and 2, an event
\* from the last instant of day 0 to the start of day 2, a weekly event of
\* Monday and Tuesday anchored on day 0, and events whose DTSTART or DTEND
\* is a text outside the three forms.
DocEvents ==
    {[summary |-> Some(RegularTitle), dtstart |-> Some(DtUtc(DayLen - 1)),
      dtend |-> Some(DtUtc(2 * DayLen)),
      rrule |-> None, description |-> None, location |-> None],
     [summary |-> Some(RegularTitle), dtstart |-> Some(DtUtc(0)),
      dtend |-> Some(DtUtc(EventDur)),
      rrule |-> Some(<<RulePart("FREQ", "WEEKLY"),
                       RulePart("BYDAY", <<"MO", "TU">>)>>),
      description |-> None, location |-> None]}
    \cup
    {[summary |-> Some(RegularTitle), dtstart |-> Some(DtUtc(t)),
      dtend |-> Some(DtUtc(t + EventDur)),
      rrule |-> None, description |-> None, location |-> None] : t \in {0, DayLen, 2 * DayLen}}
    \cup {[summary |-> Some(BlockTitle), dtstart |-> Some(x),
           dtend |-> Some(DtUtc(1)),
           rrule |-> None, description |-> None, location |-> None] :
             x \in {DtBadZ, DtOther, DtUtcAt(0, DayLen), DtLocalAt(0, DayLen)}}
    \cup {[summary |-> Some(BlockTitle), dtstart |-> Some(DtUtc(0)),
           dtend |-> Some(x),
           rrule |-> None, description |-> None, location |-> None] : x \in {DtBadZ, DtOther}}

InitFeed ==
    /\ Configured(1, 0)
    /\ arg \in {Some([events |-> ev, now |-> t]) :
                   ev \in SeqsUpTo(DocEvents, MaxDocLen), t \in 0..MaxClock}
    /\ res = None

EvalFeed ==
    /\ arg.some
    /\ res = None
    /\ res' = Some(parse_ics_file_extended(
                      [status |-> "ok", events |-> arg.val.events], arg.val.now))
    /\ UNCHANGED <<clock, ics_file_paths, cache_duration_secs, arg, callers, writers, cache,
                   handler, pc, query, refresh, ret, locals>>

NextFeed == EvalFeed

SpecFeed == InitFeed /\ [][NextFeed]_vars

\* ------------------------------------- a service without ICS sources
\* The else branch of get_meetings_for_today_and_tomorrow: with no ICS file
\* configured the call goes to get_mock_meetings and leaves the cache alone.
MockMeetings ==
    /\ pc = "call"
    /\ ics_file_paths = <<>>
    /\ ret' = get_mock_meetings(clock)
    /\ pc' = "ret"
    /\ UNCHANGED <<clock, fixed, cache, handler, query, refresh, locals>>

InitMock ==
    /\ \E ttl \in 0..MaxTTL : Configured(0, ttl)
    /\ arg = None
    /\ res = None

NextMock ==
    \/ ClockTick
    \/ HandleSocket
    \/ Tick
    \/ GetMeetings
    \/ MockMeetings
    \/ CurrentAndNextReturn
    \/ ActiveTimeBlocksReturn
    \/ MergeAndSend
    \/ Done

SpecMock == InitMock /\ [][NextMock]_vars

\* ----------------------------- one CalendarService called by several tasks
\* get_meetings_for_today_and_tomorrow takes &self and keeps its cache behind
\* two mutexes; each action below is one stretch of it between two lock
\* sections or awaits, run by caller c.

\* let now, and the block that locks last_fetch_time and computes
\* cache_valid.  A caller that finds the cache stale goes on to the fetch.
ReadLastFetch(c) ==
    /\ callers[c].pc = "idle"
    /\ LET valid == cache_valid(last_fetch_time, clock, cache_duration_secs)
       IN IF valid
          THEN /\ callers' = [callers EXCEPT ![c] =
                                [IdleCaller EXCEPT !.pc = "valid",
                                                   !.now = clock,
                                                   !.stamp_by = writers.fetched_by]]
               /\ UNCHANGED writers
          ELSE /\ writers.started < MaxRefreshes
               /\ callers' = [callers EXCEPT ![c] =
                                [IdleCaller EXCEPT !.pc = "fetch",
                                                   !.now = clock,
                                                   !.refresh = writers.started + 1]]
               /\ writers' = [writers EXCEPT !.started = @ + 1]
    /\ UNCHANGED <<clock, ics_file_paths, cache_duration_secs, arg, res, cache,
                   handler, pc, query, refresh, ret, locals>>

\* if cache_valid: the block that locks cached_meetings and returns a clone
\* of the list, or falls through to the fetch when there is none.
ReadCached(c) ==
    /\ callers[c].pc = "valid"
    /\ IF cached_meetings.some
       THEN /\ callers' = [callers EXCEPT ![c].pc = "returned",
                                          ![c].ret = Ok(cached_meetings.val),
                                          ![c].list_by = writers.cached_by]
            /\ UNCHANGED writers
       ELSE /\ writers.started < MaxRefreshes
            /\ callers' = [callers EXCEPT ![c].pc = "fetch",
                                          ![c].refresh = writers.started + 1]
            /\ writers' = [writers EXCEPT !.started = @ + 1]
    /\ UNCHANGED <<clock, ics_file_paths, cache_duration_secs, arg, res, cache,
                   handler, pc, query, refresh, ret, locals>>

\* parse_multiple_ics_files_extended().await?: every source is read and
\* parsed into the caller's own all_meetings, which is sorted and returned.
RECURSIVE collect(_, _, _)
collect(fetched, at, k) ==
    IF k = 0 THEN <<>>
    ELSE extend_all_meetings(collect(fetched, at, k - 1),
                             parse_ics_file_extended(fetched[k], at))

FetchAll(c) ==
    /\ callers[c].pc = "fetch"
    /\ \E fetched \in [1..Len(ics_file_paths) ->
                          UNION {FetchOutcomes(ics_file_paths[i]) :
                                    i \in 1..Len(ics_file_paths)}] :
         /\ \A i \in 1..Len(ics_file_paths) :
               fetched[i] \in FetchOutcomes(ics_file_paths[i])
         /\ LET fresh_meetings ==
                    finish_parse_multiple(collect(fetched, clock, Len(fetched)))
            IN IF fresh_meetings.ok
               THEN callers' = [callers EXCEPT ![c].pc = "store",
                                               ![c].fresh_meetings = fresh_meetings.val]
               ELSE callers' = [callers EXCEPT ![c].pc = "returned",
                                               ![c].ret = Err]
    /\ UNCHANGED <<clock, ics_file_paths, cache_duration_secs, arg, res, writers,
                   cache, handler, pc, query, refresh, ret, locals>>

\* The block that locks cached_meetings and stores the fresh list.
WriteCached(c) ==
    /\ callers[c].pc = "store"
    /\ cached_meetings' = Some(callers[c].fresh_meetings)
    /\ writers' = [writers EXCEPT !.cached_by = callers[c].refresh]
    /\ callers' = [callers EXCEPT ![c].pc = "stamp"]
    /\ UNCHANGED <<clock, ics_file_paths, cache_duration_secs, arg, res,
                   last_fetch_time, handler, pc, query, refresh, ret, locals>>

\* The block that locks last_fetch_time and stores now, and Ok(fresh_meetings).
WriteLastFetch(c) ==
    /\ callers[c].pc = "stamp"
    /\ last_fetch_time' = Some(callers[c].now)
    /\ writers' = [writers EXCEPT !.fetched_by = callers[c].refresh]
    /\ callers' = [callers EXCEPT ![c].pc = "returned",
                                  ![c].ret = Ok(callers[c].fresh_meetings)]
    /\ UNCHANGED <<clock, ics_file_paths, cache_duration_secs, arg, res,
                   cached_meetings, handler, pc, query, refresh, ret, locals>>

\* The caller has its answer and may call again.
Returned(c) ==
    /\ callers[c].pc = "returned"
    /\ callers' = [callers EXCEPT ![c] = IdleCaller]
    /\ UNCHANGED <<clock, ics_file_paths, cache_duration_secs, arg, res, writers,
                   cache, handler, pc, query, refresh, ret, locals>>

InitShared ==
    /\ \E ttl \in 0..MaxTTL : Configured(1, ttl)
    /\ arg = None
    /\ res = None

NextShared ==
    \/ ClockTick
    \/ \E c \in 1..NumCallers : ReadLastFetch(c)
    \/ \E c \in 1..NumCallers : ReadCached(c)
    \/ \E c \in 1..NumCallers : FetchAll(c)
    \/ \E c \in 1..NumCallers : WriteCached(c)
    \/ \E c \in 1..NumCallers : WriteLastFetch(c)
    \/ \E c \in 1..NumCallers : Returned(c)

SpecShared == InitShared /\ [][NextShared]_vars

\* --------------------------------------- the conversion of one event
\* The PARTSTAT values of an ATTENDEE property.
PartStats == {"ACCEPTED", "DECLINED", "TENTATIVE", "NEEDS-ACTION"}

\* Events with SUMMARY, DTSTART and DTEND, without or with an ATTENDEE
\* property that carries a PARTSTAT.
ConvertEvents ==
    {[summary |-> Some(t), dtstart |-> Some(DtUtc(se[1])),
      dtend |-> Some(DtUtc(se[2])), rrule |-> None,
      description |-> None, location |-> None, attendee |-> a] :
        t \in FeedTitles, se \in EventSpans,
        a \in {None} \cup {Some(ps) : ps \in PartStats}}

InitConvert ==
    /\ Configured(1, 0)
    /\ arg \in {Some([event |-> e, now |-> t]) :
                   e \in ConvertEvents, t \in 0..MaxClock}
    /\ res = None

EvalConvert ==
    /\ arg.some
    /\ res = None
    /\ res' = Some(convert_ical_event_to_meeting(arg.val.event, arg.val.now))
    /\ UNCHANGED <<clock, ics_file_paths, cache_duration_secs, arg, callers, writers, cache,
                   handler, pc, query, refresh, ret, locals>>

NextConvert == EvalConvert

SpecConvert == InitConvert /\ [][NextConvert]_vars

\* ------------------------------------------- the deduplication on its own
MaxDedupLen == 4
MaxDedupEnd == 2

\* Meetings that can be duplicates of one another: two titles, two start
\* times, and end times from 1 to MaxDedupEnd.
DedupMeetings ==
    {Meeting_new(t, s, e) :
        t \in {RegularTitle, BlockTitle}, s \in {0, 1}, e \in 1..MaxDedupEnd}

InitDedup ==
    /\ Configured(1, 0)
    /\ arg \in {Some([all_meetings |-> x]) :
                   x \in SeqsUpTo(DedupMeetings, MaxDedupLen)}
    /\ res = None

\* The pass run on the list, and run once more on what it gave.
EvalDedup ==
    /\ arg.some
    /\ res = None
    /\ res' = Some([once  |-> dedup(arg.val.all_meetings),
                    twice |-> dedup(dedup(arg.val.all_meetings))])
    /\ UNCHANGED <<clock, ics_file_paths, cache_duration_secs, arg, callers, writers, cache,
                   handler, pc, query, refresh, ret, locals>>

NextDedup == EvalDedup

SpecDedup == InitDedup /\ [][NextDedup]_vars

\* ------------------------------------- expand_recurring_event on its own
MaxAnchorDays == 2
MaxUntilDate  == 7

\* The instants at which the expansion runs: today goes through a whole week
\* and one day more.
ExpandNows == 0..((Len(Weekdays) + 1) * DayLen - 1)

\* The anchors: a start on day 0 or 1 and an end from no later to
\* MaxAnchorDays days later.
Anchors ==
    {[start |-> st, end |-> st + span] :
        st \in 0..(2 * DayLen - 1), span \in 0..(MaxAnchorDays * DayLen)}

\* The rules: a frequency, with or without BYDAY, with or without UNTIL.
Rrules ==
    {<<RulePart("FREQ", f)>> \o by \o un :
        f \in {"WEEKLY", "DAILY"},
        by \in {<<>>} \cup {<<RulePart("BYDAY", days)>> :
                   days \in {<<"MO">>, <<"MO", "TU">>, <<"SU">>}},
        un \in {<<>>, <<RulePart("UNTIL", UntilOther)>>}
               \cup {<<RulePart("UNTIL", UntilDigits(d))>> : d \in 0..MaxUntilDate}}

InitExpand ==
    /\ Configured(1, 0)
    /\ arg \in {Some([start |-> a.start, end |-> a.end, rrule |-> r, now |-> t]) :
                   a \in Anchors, r \in Rrules, t \in ExpandNows}
    /\ res = None

EvalExpand ==
    /\ arg.some
    /\ res = None
    /\ res' = Some(expand_recurring_event(RegularTitle, arg.val.start, arg.val.end,
                                          arg.val.rrule, None, None, arg.val.now))
    /\ UNCHANGED <<clock, ics_file_paths, cache_duration_secs, arg, callers, writers, cache,
                   handler, pc, query, refresh, ret, locals>>

NextExpand == EvalExpand

SpecExpand == InitExpand /\ [][NextExpand]_vars

\* ============================================================ properties
InProgressAt(m, t) == m.start_time <= t /\ t <= m.end_time
UpcomingAt(m, t)   == t < m.start_time
Bracketed(m) ==
    Len(m.title) >= 1 /\ Head(m.title) = "[" /\ m.title[Len(m.title)] = "]"

\* The positionally first element of list that satisfies P, if there is one.
FirstMatch(list, P(_)) ==
    IF \E i \in 1..Len(list) : P(list[i])
    THEN Some(list[CHOOSE i \in 1..Len(list) :
                     P(list[i]) /\ \A j \in 1..(i - 1) : ~P(list[j])])
    ELSE None

SortedByStart(list) ==
    \A i, j \in 1..Len(list) : i < j => list[i].start_time <= list[j].start_time

Count(list, m) == Cardinality({i \in 1..Len(list) : list[i] = m})

RECURSIVE CountInOk(_, _)
CountInOk(results, m) ==
    IF results = <<>> THEN 0
    ELSE (IF Head(results).ok THEN Count(Head(results).val, m) ELSE 0)
         + CountInOk(Tail(results), m)

RECURSIVE MeetingsOfOk(_)
MeetingsOfOk(results) ==
    IF results = <<>> THEN {}
    ELSE (IF Head(results).ok
          THEN {Head(results).val[i] : i \in 1..Len(Head(results).val)}
          ELSE {})
         \cup MeetingsOfOk(Tail(results))

\* C1: with the cache filled at fetched_at = t, a call of
\* get_meetings_for_today_and_tomorrow at a time now with 0 <= now - t < TTL
\* returns exactly the stored list, starts no fetch, and leaves the stored
\* list and fetched_at as they are.
C1_FreshQueryServedFromCache ==
    [][(/\ pc = "call"
        /\ pc' # "call"
        /\ last_fetch_time.some
        /\ clock - last_fetch_time.val >= 0
        /\ clock - last_fetch_time.val < cache_duration_secs)
       => (/\ pc' = "ret"
           /\ ret' = Ok(cached_meetings.val)
           /\ cached_meetings' = cached_meetings
           /\ last_fetch_time' = last_fetch_time
           /\ idx' = idx
           /\ all_meetings' = all_meetings
           /\ source_results' = source_results)]_vars

\* A non-empty list served from the cache one or more clock units after it
\* was fetched, with no source read in the call.
C1_Witness ==
    /\ pc = "ret"
    /\ ret.ok
    /\ ret.val # <<>>
    /\ source_results = <<>>
    /\ last_fetch_time.some
    /\ now > last_fetch_time.val
    /\ now - last_fetch_time.val < cache_duration_secs
    /\ cached_meetings = Some(ret.val)

\* C2: a call of get_meetings_for_today_and_tomorrow with the cache never
\* filled, or with now - fetched_at >= TTL (equal included), runs a refresh
\* that reads every configured source, stores the new list with fetched_at =
\* the now of that call, and leaves the cache fresh for every call made less
\* than TTL after that now.
C2_StaleQueryRefreshes ==
    [][/\ (/\ pc = "call"
           /\ pc' # "call"
           /\ (~last_fetch_time.some
               \/ clock - last_fetch_time.val >= cache_duration_secs))
          => (/\ pc' = "fetch"
              /\ now' = clock
              /\ idx' = 1
              /\ all_meetings' = <<>>
              /\ source_results' = <<>>)
       /\ (pc = "fetch" /\ pc' # "fetch")
          => (/\ pc' = "ret"
              /\ Len(source_results') = Len(ics_file_paths)
              /\ ret'.ok
              /\ cached_meetings' = Some(ret'.val)
              /\ last_fetch_time' = Some(now)
              /\ \A t \in now..(now + cache_duration_secs - 1) :
                    cache_valid(last_fetch_time', t, cache_duration_secs))]_vars

\* A refresh under way that was started exactly TTL after the last one, the
\* old non-empty list still stored.
C2_Witness ==
    /\ pc = "fetch"
    /\ source_results # <<>>
    /\ cache_duration_secs > 0
    /\ last_fetch_time.some
    /\ now - last_fetch_time.val = cache_duration_secs
    /\ cached_meetings.some
    /\ cached_meetings.val # <<>>

NoDuplicates(list) ==
    \A i, j \in 1..Len(list) :
        i < j => ~(list[i].title = list[j].title
                   /\ list[i].start_time = list[j].start_time)

\* C3: the list stored in the cache and the list returned by
\* get_meetings_for_today_and_tomorrow hold no two meetings with the same
\* title and the same start_time.
C3_SnapshotHasNoDuplicates ==
    /\ cached_meetings.some => NoDuplicates(cached_meetings.val)
    /\ (pc = "ret" /\ ret.ok) => NoDuplicates(ret.val)

\* C4: status() is Upcoming iff now < start_time, InProgress iff
\* start_time <= now <= end_time, Ended otherwise, and exactly one of
\* is_upcoming, is_active, has_ended is true at that instant.
C4_StatusPartition ==
    res.some =>
        LET m == arg.val.m
            t == arg.val.now
            r == res.val
        IN /\ r.status \in {"Upcoming", "InProgress", "Ended"}
           /\ (r.status = "Upcoming") <=> (t < m.start_time)
           /\ (r.status = "InProgress") <=> (m.start_time <= t /\ t <= m.end_time)
           /\ (r.status = "Ended") <=> (~(t < m.start_time)
                                         /\ ~(m.start_time <= t /\ t <= m.end_time))
           /\ r.is_upcoming <=> (r.status = "Upcoming")
           /\ r.is_active <=> (r.status = "InProgress")
           /\ r.has_ended <=> (r.status = "Ended")
           /\ Cardinality({k \in {"u", "a", "e"} :
                             \/ k = "u" /\ r.is_upcoming
                             \/ k = "a" /\ r.is_active
                             \/ k = "e" /\ r.has_ended}) = 1

\* A meeting found InProgress at the very instant it ends, having started
\* before.
C4_Witness ==
    /\ res.some
    /\ arg.val.now = arg.val.m.end_time
    /\ arg.val.m.start_time < arg.val.m.end_time
    /\ res.val.is_active

\* C5: get_current_and_next_meetings returns as current the positionally
\* first meeting of the start-sorted list that is InProgress and no time
\* block, as next the positionally first that is Upcoming and no time block,
\* and None for each exactly when the list holds no such meeting.
C5_CurrentAndNextArePositionalFirst ==
    [][(pc = "ret" /\ query = "current_and_next" /\ pc' = "call")
       => (/\ ret.ok
           /\ SortedByStart(ret.val)
           /\ meetings_result'.ok
           /\ meetings_result'.val.current =
                 FirstMatch(ret.val,
                            LAMBDA m : InProgressAt(m, clock) /\ ~Bracketed(m))
           /\ meetings_result'.val.next =
                 FirstMatch(ret.val,
                            LAMBDA m : UpcomingAt(m, clock) /\ ~Bracketed(m)))]_vars

\* The list starts with a time block in progress, and the current meeting
\* reported is the regular meeting behind it.
C5_Witness ==
    /\ pc = "call"
    /\ query = "time_blocks"
    /\ meetings_result.ok
    /\ cached_meetings.some
    /\ Len(cached_meetings.val) = 2
    /\ Bracketed(cached_meetings.val[1])
    /\ InProgressAt(cached_meetings.val[1], clock)
    /\ ~Bracketed(cached_meetings.val[2])
    /\ InProgressAt(cached_meetings.val[2], clock)
    /\ meetings_result.val.current = Some(cached_meetings.val[2])
    /\ ~meetings_result.val.next.some

\* C6: in every MeetingUpdate of get_meetings and handle_socket, neither
\* current_meeting nor next_meeting is a time block, whether it came from
\* the ICS sources or from the Google events.
C6_NoTimeBlockInUpdate ==
    (pc = "sent" /\ update.some) =>
        /\ update.val.current_meeting.some
              => ~Bracketed(update.val.current_meeting.val)
        /\ update.val.next_meeting.some
              => ~Bracketed(update.val.next_meeting.val)

GoogleCurrent == FirstMatch(google_meetings, LAMBDA m : InProgressAt(m, clock))
GoogleNext    == FirstMatch(google_meetings, LAMBDA m : UpcomingAt(m, clock))

Replaces(ext, local) ==
    ext.some /\ (~local.some \/ ext.val.start_time < local.val.start_time)

C8_TieGoesToExternal ==
    (pc = "sent" /\ update.some /\ meetings_result.ok) =>
        /\ (/\ meetings_result.val.current.some
            /\ GoogleCurrent.some
            /\ GoogleCurrent.val.start_time
                  = meetings_result.val.current.val.start_time)
           => update.val.current_meeting = GoogleCurrent
        /\ (/\ meetings_result.val.next.some
            /\ GoogleNext.some
            /\ GoogleNext.val.start_time
                  = meetings_result.val.next.val.start_time)
           => update.val.next_meeting = GoogleNext

\* C9: in one refresh, a source whose fetch or parse failed adds nothing and
\* takes nothing away: the published list holds every meeting of every
\* source that parsed, as often as those sources gave it, and nothing else.
C9_FailedSourceIsolated ==
    (pc = "ret" /\ source_results # <<>>) =>
        /\ ret.ok
        /\ cached_meetings = Some(ret.val)
        /\ \A m \in MeetingsOfOk(source_results)
                    \cup {ret.val[i] : i \in 1..Len(ret.val)} :
              Count(ret.val, m) = CountInOk(source_results, m)

\* The first source gave a meeting, the second failed, and the meeting is
\* published.
C9_Witness ==
    /\ pc = "ret"
    /\ Len(source_results) = 2
    /\ source_results[1].ok
    /\ source_results[1].val # <<>>
    /\ ~source_results[2].ok
    /\ ret = Ok(source_results[1].val)
    /\ cached_meetings = Some(source_results[1].val)

AllFailed(results) ==
    results # <<>> /\ \A i \in 1..Len(results) : ~results[i].ok

\* C10: with a source configured, get_meetings_for_today_and_tomorrow never
\* returns an error; a refresh in which every source failed returns and
\* caches the empty list, the queries on it give no current meeting, no next
\* meeting and no time block, and the handler still hands out an update.
C10_RefreshNeverFails ==
    /\ pc = "ret" => ret.ok
    /\ (pc = "ret" /\ AllFailed(source_results))
          => /\ ret = Ok(<<>>)
             /\ cached_meetings = Some(<<>>)
             /\ current_and_next(ret.val, clock) = [current |-> None, next |-> None]
             /\ active_time_blocks(ret.val, clock) = <<>>
    /\ pc \in {"merge", "sent"} => (meetings_result.ok /\ time_blocks_result.ok)
    /\ pc = "sent" => update.some

\* Both configured sources failed and the empty list was returned and cached.
C10_Witness ==
    /\ pc = "ret"
    /\ Len(source_results) = 2
    /\ AllFailed(source_results)
    /\ ret = Ok(<<>>)
    /\ cached_meetings = Some(<<>>)

\* Whether a DTSTART / DTEND text is in one of the three timestamp forms, and
\* the instant it then names.
Recognized(x) ==
    \/ x.form \in {"utc", "local"} /\ x.tod \in 0..(DayLen - 1)
    \/ x.form = "date"

InstantOf(x) ==
    IF x.form = "utc" THEN x.date * DayLen + x.tod
    ELSE IF x.form = "local" THEN x.date * DayLen + x.tod - IstanbulOffset
    ELSE x.date * DayLen

WellFormedEvent(e) ==
    /\ e.dtstart.some /\ Recognized(e.dtstart.val)
    /\ e.dtend.some /\ Recognized(e.dtend.val)

UnrecognizedEvent(e) ==
    \/ e.dtstart.some /\ ~Recognized(e.dtstart.val)
    \/ e.dtend.some /\ ~Recognized(e.dtend.val)

InWindow(t, at) ==
    (t \div DayLen) \in {at \div DayLen, (at \div DayLen) + 1}

\* C11: within one feed, an event whose DTSTART or DTEND is in none of the
\* three timestamp forms (a malformed text ending in 'Z' included) is skipped
\* without an error, and every well-formed event of the feed still gives its
\* meeting to the result of the parse.
C11_MalformedEventSkipped ==
    (res.some /\ \E i \in 1..Len(arg.val.events) :
                     UnrecognizedEvent(arg.val.events[i]))
    => /\ res.val.ok
       /\ \A i \in 1..Len(arg.val.events) :
             LET e == arg.val.events[i]
             IN (WellFormedEvent(e) /\ InWindow(InstantOf(e.dtstart.val), arg.val.now))
                => \E k \in 1..Len(res.val.val) :
                      /\ res.val.val[k].title = e.summary.val
                      /\ res.val.val[k].start_time = InstantOf(e.dtstart.val)
                      /\ res.val.val[k].end_time = InstantOf(e.dtend.val)
       /\ \A k \in 1..Len(res.val.val) :
             \E i \in 1..Len(arg.val.events) :
                /\ WellFormedEvent(arg.val.events[i])
                /\ res.val.val[k].title = arg.val.events[i].summary.val

\* C20: parse_ical_datetime is total: the UTC form gives the instant its
\* digits name, the local form that wall-clock time less three hours, the
\* date-only form midnight of the date, and every other text gives null,
\* never an error.
C20_ParseIcalDatetimeTotal ==
    res.some =>
        LET x == arg.val.dt_str
        IN /\ res.val.ok
           /\ Recognized(x) => res.val.val = Some(InstantOf(x))
           /\ ~Recognized(x) => res.val.val = None

\* C12: the deduplication pass is idempotent: running it on its own output
\* gives that output again.
C12_DedupIdempotent ==
    res.some => res.val.twice = res.val.once

\* C13: the output of the deduplication pass holds at most one meeting per
\* (title, start_time), every meeting of the output is a meeting of the
\* input, and the output is not longer than the input.
C13_DedupEliminates ==
    res.some =>
        /\ NoDuplicates(res.val.once)
        /\ \A k \in 1..Len(res.val.once) :
              \E i \in 1..Len(arg.val.all_meetings) :
                 arg.val.all_meetings[i] = res.val.once[k]
        /\ Len(res.val.once) <= Len(arg.val.all_meetings)

SameKey(a, b) == a.title = b.title /\ a.start_time = b.start_time

\* C14: for every group of input meetings with the same title and start_time,
\* the output keeps a meeting of the group with the greatest end_time, and a
\* duplicate that ends earlier than another of its group is removed, in
\* whatever order the input gives them.
C14_DedupKeepsLatestEnd ==
    res.some =>
        \A i \in 1..Len(arg.val.all_meetings) :
            LET m == arg.val.all_meetings[i]
                latest == \A n \in 1..Len(arg.val.all_meetings) :
                             SameKey(arg.val.all_meetings[n], m)
                                => arg.val.all_meetings[n].end_time <= m.end_time
            IN /\ latest => \E k \in 1..Len(res.val.once) : res.val.once[k] = m
               /\ ~latest => \A k \in 1..Len(res.val.once) : res.val.once[k] # m

\* The parts of the rule in arg, the two days of the window, and the days on
\* which res has an occurrence.
HasPart(name) == \E k \in 1..Len(arg.val.rrule) : arg.val.rrule[k].name = name
PartValue(name) ==
    arg.val.rrule[CHOOSE k \in 1..Len(arg.val.rrule) :
                     arg.val.rrule[k].name = name].value
IsWeekly  == HasPart("FREQ") /\ PartValue("FREQ") = "WEEKLY"
HasUntil  == HasPart("UNTIL") /\ PartValue("UNTIL").digits
Until     == PartValue("UNTIL").date
Today     == arg.val.now \div DayLen
Tomorrow  == Today + 1
RuleMatches(d) ==
    IF HasPart("BYDAY")
    THEN \E k \in 1..Len(PartValue("BYDAY")) : PartValue("BYDAY")[k] = weekday(d)
    ELSE weekday(d) = weekday(arg.val.start \div DayLen)
OccursOn(d) ==
    \E k \in 1..Len(res.val.val) : res.val.val[k].start_time \div DayLen = d

\* C15: for a FREQ=WEEKLY rule that UNTIL does not cut off, the expansion has
\* an occurrence on d in {today, tomorrow} iff the weekday of d is in BYDAY,
\* or BYDAY is absent and the weekday of d is that of anchor_start; without
\* BYDAY at most one of the two days has an occurrence.
C15_WeeklyOccursOnMatchingWeekday ==
    (res.some /\ IsWeekly /\ (~HasPart("UNTIL") \/ (HasUntil /\ Tomorrow <= Until)))
    => /\ res.val.ok
       /\ \A d \in {Today, Tomorrow} : OccursOn(d) <=> RuleMatches(d)
       /\ \A k \in 1..Len(res.val.val) :
             res.val.val[k].start_time \div DayLen \in {Today, Tomorrow}
       /\ ~HasPart("BYDAY") => Len(res.val.val) <= 1

\* The anchor is on a Monday, the rule has no BYDAY and no UNTIL, today is
\* the Monday a week later: one occurrence, today's.
C15_Witness ==
    /\ res.some
    /\ IsWeekly
    /\ ~HasPart("BYDAY")
    /\ ~HasPart("UNTIL")
    /\ weekday(arg.val.start \div DayLen) = "MO"
    /\ Today = (arg.val.start \div DayLen) + Len(Weekdays)
    /\ weekday(Tomorrow) = "TU"
    /\ Len(res.val.val) = 1
    /\ res.val.val[1].start_time \div DayLen = Today

\* C16: UNTIL is an inclusive upper bound: for a weekly rule that matches
\* today, with today <= UNTIL (today = UNTIL and tomorrow > UNTIL included),
\* the expansion has the occurrence of today.
C16_UntilInclusive ==
    (res.some /\ IsWeekly /\ HasUntil /\ Today <= Until /\ RuleMatches(Today))
    => (res.val.ok /\ OccursOn(Today))

\* C17: no occurrence of the expansion starts on a day after UNTIL, and the
\* expansion is empty when today and tomorrow are both after UNTIL.
C17_NothingAfterUntil ==
    (res.some /\ HasUntil)
    => /\ res.val.ok
       /\ \A k \in 1..Len(res.val.val) :
             res.val.val[k].start_time \div DayLen <= Until
       /\ Today > Until => res.val.val = <<>>

\* A weekly rule whose weekday matches today, with UNTIL on the day before
\* today: nothing is returned.
C17_Witness ==
    /\ res.some
    /\ IsWeekly
    /\ HasUntil
    /\ Today = Until + 1
    /\ RuleMatches(Today)
    /\ res.val = Ok(<<>>)

\* C18: every occurrence of the expansion lasts exactly as long as the
\* anchor: end' - start' = anchor_end - anchor_start, for anchors within one
\* day, across one midnight, and over two or more days.
C18_DurationPreserved ==
    (res.some /\ res.val.ok)
    => \A k \in 1..Len(res.val.val) :
          res.val.val[k].end_time - res.val.val[k].start_time
             = arg.val.end - arg.val.start

\* C19: the expansion returns between 0 and 2 occurrences and no error, and
\* returns none for a rule whose frequency is not WEEKLY.
C19_ZeroToTwoAndWeeklyOnly ==
    res.some
    => /\ res.val.ok
       /\ Len(res.val.val) \in 0..2
       /\ ~IsWeekly => res.val.val = <<>>

\* A daily rule whose BYDAY names the weekdays of today and of tomorrow, not
\* cut off by an UNTIL: nothing is returned.
C19_Witness ==
    /\ res.some
    /\ ~IsWeekly
    /\ HasPart("BYDAY")
    /\ RuleMatches(Today)
    /\ RuleMatches(Tomorrow)
    /\ ~HasPart("UNTIL")
    /\ res.val = Ok(<<>>)

\* C21: a refresh that gives no meeting stores the empty list and sets
\* fetched_at; a query made less than TTL after it is answered with the
\* empty list from the cache and starts no fetch.
C21_EmptySnapshotIsCached ==
    [][/\ (pc = "fetch" /\ pc' = "ret" /\ ret' = Ok(<<>>))
          => (cached_meetings' = Some(<<>>) /\ last_fetch_time' = Some(now))
       /\ (/\ pc = "call"
           /\ pc' # "call"
           /\ cached_meetings = Some(<<>>)
           /\ last_fetch_time.some
           /\ clock - last_fetch_time.val >= 0
           /\ clock - last_fetch_time.val < cache_duration_secs)
          => (/\ pc' = "ret"
              /\ ret' = Ok(<<>>)
              /\ cached_meetings' = cached_meetings
              /\ last_fetch_time' = last_fetch_time
              /\ source_results' = <<>>)]_vars

\* The empty list served from the cache in a later tick of the socket,
\* after the clock has moved on from the refresh that stored it.
C21_Witness ==
    /\ pc = "ret"
    /\ handler = "socket"
    /\ query = "current_and_next"
    /\ ret = Ok(<<>>)
    /\ source_results = <<>>
    /\ cached_meetings = Some(<<>>)
    /\ last_fetch_time.some
    /\ now > last_fetch_time.val
    /\ now - last_fetch_time.val < cache_duration_secs

\* The positions of list whose meeting satisfies P, and the k-th of them.
Positions(list, P(_)) == {i \in 1..Len(list) : P(list[i])}
KthOf(S, k) == CHOOSE i \in S : Cardinality({j \in S : j <= i}) = k

\* C23: get_active_time_blocks returns exactly the meetings of the snapshot
\* that are time blocks and InProgress at the time of the query, in the
\* order of the snapshot.
C23_ActiveTimeBlocksExact ==
    [][(pc = "ret" /\ query = "time_blocks" /\ pc' = "merge" /\ ret.ok)
       => LET hits == Positions(ret.val,
                         LAMBDA m : Bracketed(m) /\ InProgressAt(m, clock))
          IN /\ time_blocks_result'.ok
             /\ Len(time_blocks_result'.val) = Cardinality(hits)
             /\ \A k \in 1..Cardinality(hits) :
                   time_blocks_result'.val[k] = ret.val[KthOf(hits, k)]]_vars

\* The snapshot holds a regular meeting and a time block, both in progress,
\* and an ended or coming time block is not among them; the blocks reported
\* are the one time block in progress.
C23_Witness ==
    /\ pc = "merge"
    /\ time_blocks_result.ok
    /\ cached_meetings.some
    /\ Len(cached_meetings.val) = 2
    /\ \E i, j \in 1..2 :
          /\ ~Bracketed(cached_meetings.val[i])
          /\ InProgressAt(cached_meetings.val[i], clock)
          /\ Bracketed(cached_meetings.val[j])
          /\ InProgressAt(cached_meetings.val[j], clock)
          /\ time_blocks_result.val = <<cached_meetings.val[j]>>

\* C26: every list get_meetings_for_today_and_tomorrow returns, fresh or from
\* the cache, and the list the cache stores, is sorted ascending by
\* start_time.
C26_SnapshotSorted ==
    /\ (pc = "ret" /\ ret.ok) => SortedByStart(ret.val)
    /\ cached_meetings.some => SortedByStart(cached_meetings.val)

\* The first source gave a meeting that starts after the meeting of the
\* second source; the list returned has them in the order of their starts.
C26_Witness ==
    /\ pc = "ret"
    /\ Len(source_results) = 2
    /\ source_results[1].ok /\ Len(source_results[1].val) = 1
    /\ source_results[2].ok /\ Len(source_results[2].val) = 1
    /\ source_results[1].val[1].start_time > source_results[2].val[1].start_time
    /\ ret = Ok(<<source_results[2].val[1], source_results[1].val[1]>>)

\* C27: within one tick of handle_socket and one get_meetings request, the
\* current/next pair and the active time blocks come from the same snapshot:
\* only the first query of the tick can refresh, the query for the time
\* blocks starts no fetch and leaves the cache as it is, for every TTL.
C27_OneSnapshotPerTick ==
    [][query = "time_blocks"
       => (/\ pc' # "fetch"
           /\ cached_meetings' = cached_meetings
           /\ last_fetch_time' = last_fetch_time)]_vars

\* C28: expand_recurring_event gives no occurrence that starts before the
\* start of the anchor event.
C28_NoOccurrenceBeforeAnchor ==
    (res.some /\ res.val.ok)
    => \A k \in 1..Len(res.val.val) :
          res.val.val[k].start_time >= arg.val.start

\* C29: every meeting a parse puts in the snapshot starts on the UTC date
\* the parse read as today, or on the next one; an event of another date,
\* also one that began the day before and is still running, and an
\* occurrence of a recurring event alike, is not in the list.
C29_SnapshotWithinTodayAndTomorrow ==
    (res.some /\ res.val.ok)
    => \A k \in 1..Len(res.val.val) :
          date_naive(res.val.val[k].start_time)
             \in {date_naive(arg.val.now), date_naive(arg.val.now) + 1}

\* A document with an event that began on the day before the parse and is
\* still in progress, and with a recurring event; the parse gives the
\* occurrence of the recurring event and not the event of the day before.
C29_Witness ==
    /\ res.some
    /\ res.val.ok
    /\ Len(arg.val.events) = 2
    /\ \E i, j \in 1..2 :
          LET e == arg.val.events[i]
              r == arg.val.events[j]
          IN /\ ~e.rrule.some
             /\ e.dtstart.val.form = "utc"
             /\ e.dtend.val.form = "utc"
             /\ date_naive(InstantOf(e.dtstart.val)) = date_naive(arg.val.now) - 1
             /\ InstantOf(e.dtend.val) > arg.val.now
             /\ r.rrule.some
    /\ Len(res.val.val) = 1
    /\ date_naive(res.val.val[1].start_time) = date_naive(arg.val.now)

\* C24: convert_ical_event_to_meeting reports the participation the ATTENDEE
\* property carries: an event with PARTSTAT=DECLINED gives no meeting, an
\* event with PARTSTAT=ACCEPTED gives exactly one meeting whose
\* response_status is Accepted.
C24_ParticipationFromAttendee ==
    (res.some /\ arg.val.event.attendee.some)
    => /\ arg.val.event.attendee.val = "DECLINED" => res.val = Ok(<<>>)
       /\ arg.val.event.attendee.val = "ACCEPTED"
          => /\ res.val.ok
             /\ Len(res.val.val) = 1
             /\ res.val.val[1].response_status = Some("Accepted")

\* C30: with no ICS source configured the cache is neither read nor written,
\* cached and fetched_at stay unset; every call returns the three built-in
\* meetings placed relative to the instant of the call, and
\* get_current_and_next_meetings reports a current and a next meeting.
C30_MockPathLeavesCacheAlone ==
    [][/\ cached_meetings = None /\ cached_meetings' = None
       /\ last_fetch_time = None /\ last_fetch_time' = None
       /\ (pc = "call" /\ pc' # "call")
          => /\ pc' = "ret"
             /\ ret'.ok
             /\ Len(ret'.val) = 3
             /\ ret'.val[1].title = DailyStandup
             /\ ret'.val[1].start_time = clock - 5
             /\ ret'.val[1].end_time = clock + 25
             /\ ret'.val[2].title = ProjectReview
             /\ ret'.val[2].start_time = clock + 30
             /\ ret'.val[2].end_time = clock + 90
             /\ ret'.val[3].title = ClientCall
             /\ ret'.val[3].start_time = clock + 180
             /\ ret'.val[3].end_time = clock + 240
       /\ (pc = "ret" /\ query = "current_and_next" /\ pc' = "call")
          => /\ meetings_result'.ok
             /\ meetings_result'.val.current.some
             /\ meetings_result'.val.next.some]_vars

\* A socket without ICS sources has answered both queries of a tick after
\* the clock moved: the Daily Standup is current, the Project Review is
\* next, and the cache is unset.
C30_Witness ==
    /\ ics_file_paths = <<>>
    /\ handler = "socket"
    /\ pc = "merge"
    /\ clock > 0
    /\ meetings_result.ok
    /\ meetings_result.val.current.some
    /\ meetings_result.val.current.val.title = DailyStandup
    /\ meetings_result.val.next.some
    /\ meetings_result.val.next.val.title = ProjectReview
    /\ time_blocks_result = Ok(<<>>)
    /\ cached_meetings = None
    /\ last_fetch_time = None

\* The callers that are between the start of a refresh and its last write.
Refreshing == {c \in 1..NumCallers : callers[c].pc \in {"fetch", "store", "stamp"}}

\* C22: with callers interleaving on one CalendarService, the cache holds a
\* (meetings, fetched_at) pair written by one refresh whenever no refresh is
\* between its two writes, and a caller served from the cache gets a list
\* that the refresh of the fetched_at it tested has written.
C22_CachePairFromOneRefresh ==
    /\ (\A c \in 1..NumCallers : callers[c].pc # "stamp")
       => writers.cached_by = writers.fetched_by
    /\ \A c \in 1..NumCallers :
          (callers[c].pc = "returned" /\ callers[c].list_by # 0)
          => callers[c].list_by = callers[c].stamp_by

\* C25: at most one refresh of the cache is in flight at a time, and a
\* refresh that started earlier never overwrites the list or the fetched_at
\* that a refresh started later has written.
C25_SingleRefreshInFlight ==
    [][/\ Cardinality(Refreshing') <= 1
       /\ writers'.cached_by >= writers.cached_by
       /\ writers'.fetched_by >= writers.fetched_by]_vars
====
